---- MODULE Spec2Model ----
(***************************************************************************)
(* Model of analysis_free_shipping_hk.py: the one-shot report generator    *)
(* main() and the analysis blocks it calls.                                *)
(*                                                                         *)
(* A pandas cell is a "float": a rational number [k |-> "num", n, d], the  *)
(* missing value NaN, or an infinity.  A table (DataFrame) is a set of row *)
(* records when its row order is irrelevant to the code that reads it, and *)
(* a sequence of row records when the code reads it by position.           *)
(***************************************************************************)
EXTENDS Integers, Sequences, FiniteSets, TLC

\* ------------------------------------------------------------------ bounds
\* Largest seller-month table (rows of marts.agg_seller_monthly_kpi).
MaxRows == 4
\* Largest order-review table (rows of marts.order_review_metrics).
MaxOrders == 4

\* ------------------------------------------------------------- float cells
RECURSIVE GCD(_, _)
GCD(a, b) == IF b = 0 THEN a ELSE GCD(b, a % b)

Abs(x) == IF x < 0 THEN -x ELSE x

NaN == [k |-> "nan", n |-> 0, d |-> 1]

\* +inf (n = 1) or -inf (n = -1)
Inf(sign) == [k |-> "inf", n |-> sign, d |-> 1]

\* the rational num/den, den # 0, in lowest terms with a positive denominator
Rat(num, den) ==
    LET g == GCD(Abs(num), Abs(den))
        s == IF den < 0 THEN -1 ELSE 1
    IN  [k |-> "num", n |-> (s * num) \div g, d |-> (s * den) \div g]

Num(i) == Rat(i, 1)

\* a number that is neither missing nor infinite
IsFinite(x) == x.k = "num"

Sign(i) == IF i > 0 THEN 1 ELSE IF i < 0 THEN -1 ELSE 0

\* IEEE comparisons: every comparison with NaN is false
FGt(a, b) ==
    CASE a.k = "nan" \/ b.k = "nan" -> FALSE
      [] a.k = "num" /\ b.k = "num" -> a.n * b.d > b.n * a.d
      [] a.k = "inf" /\ b.k = "inf" -> a.n > b.n
      [] a.k = "inf" -> a.n > 0
      [] OTHER -> b.n < 0

FEq(a, b) ==
    CASE a.k = "nan" \/ b.k = "nan" -> FALSE
      [] OTHER -> a = b

FGe(a, b) == FGt(a, b) \/ FEq(a, b)

FLt(a, b) == FGt(b, a)

\* a - b
FSub(a, b) ==
    CASE a.k = "nan" \/ b.k = "nan" -> NaN
      [] a.k = "num" /\ b.k = "num" -> Rat(a.n * b.d - b.n * a.d, a.d * b.d)
      [] a.k = "inf" /\ b.k = "inf" -> IF a.n = b.n THEN NaN ELSE a
      [] a.k = "inf" -> a
      [] OTHER -> Inf(-b.n)

\* a * b
FMul(a, b) ==
    CASE a.k = "nan" \/ b.k = "nan" -> NaN
      [] a.k = "num" /\ b.k = "num" -> Rat(a.n * b.n, a.d * b.d)
      [] OTHER -> IF a.n = 0 \/ b.n = 0 THEN NaN ELSE Inf(Sign(a.n) * Sign(b.n))

\* a / b on numpy float64 scalars: a division by zero yields inf or nan
\* (with a RuntimeWarning), never an exception
FDiv(a, b) ==
    CASE a.k = "nan" \/ b.k = "nan" -> NaN
      [] a.k = "num" /\ b.k = "num" ->
            IF b.n # 0 THEN Rat(a.n * b.d, a.d * b.n)
            ELSE IF a.n = 0 THEN NaN ELSE Inf(Sign(a.n))
      [] a.k = "inf" /\ b.k = "inf" -> NaN
      [] a.k = "inf" -> Inf(a.n * (IF b.n < 0 THEN -1 ELSE 1))
      [] OTHER -> Num(0)

RECURSIVE SumCells(_)
\* sum of a sequence of numeric cells
SumCells(cells) ==
    IF cells = <<>> THEN Num(0)
    ELSE LET h == Head(cells)
             t == SumCells(Tail(cells))
         IN  Rat(h.n * t.d + t.n * h.d, h.d * t.d)

IsNotNa(x) == x.k # "nan"

\* Series.mean(): skipna=True, NaN for a series with no non-missing value
Mean(cells) ==
    LET vals == SelectSeq(cells, IsNotNa)
    IN  IF vals = <<>> THEN NaN
        ELSE FDiv(SumCells(vals), Num(Len(vals)))


\* ----------------------------------------------------- seller-month input
\* seller ids and months, in their sort order (ids and "YYYY-MM" strings sort
\* lexicographically; the model numbers them in that order)
SellerIds == {1, 2}
Months == {1, 2, 3}

\* 0.8, the free-shipping item rate threshold
RateThreshold == Rat(4, 5)
\* 30, the order count threshold
OrdersThreshold == 30

\* (orders, gmv, free_shipping_item_rate) of a seller-month
SellerMonthVals ==
    { <<Num(40), Num(1000), Rat(4, 5)>>,
      <<Num(50), Num(1200), Num(1)>>,
      <<Num(30), Num(0), Rat(4, 5)>>,
      <<Num(10), Num(200), Rat(1, 2)>>,
      <<Num(0), Num(0), Num(0)>>,
      <<Num(29), Num(0), Num(1)>>,
      <<Num(40), Num(1200), Rat(79, 100)>> }

SellerKeys == SellerIds \X Months

KeyLess(a, b) == a[1] < b[1] \/ (a[1] = b[1] /\ a[2] < b[2])

SellerMonth(seller, month, v) ==
    [ seller_id |-> seller, order_month |-> month,
      orders |-> v[1], gmv |-> v[2], free_shipping_item_rate |-> v[3] ]

RECURSIVE SellerRows(_, _)
\* the rows of the table with keys ks and values f, in key order
SellerRows(ks, f) ==
    IF ks = {} THEN <<>>
    ELSE LET key == CHOOSE a \in ks : \A b \in ks \ {a} : KeyLess(a, b)
         IN  <<SellerMonth(key[1], key[2], f[key])>> \o SellerRows(ks \ {key}, f)

\* the key sets of the seller-month tables of at most max_rows rows;
\* (seller_id, order_month) is the key of the table
SellerKeySets(max_rows) == { ks \in SUBSET SellerKeys : Cardinality(ks) <= max_rows }

\* ------------------------------------------------ detect_campaign_sellers
Column(rows, col) == [i \in 1..Len(rows) |-> rows[i][col]]

Range(s) == { s[i] : i \in DOMAIN s }

\* the mask with orders > 30 in place of orders >= 30
IsCandidateStrict(r) ==
    FGe(r.free_shipping_item_rate, RateThreshold) /\ FGt(r.orders, Num(OrdersThreshold))

\* the boolean mask of line 200
IsCandidate(r) ==
    FGe(r.free_shipping_item_rate, RateThreshold) /\ FGe(r.orders, Num(OrdersThreshold))

CampaignKeys(df) ==
    { <<r.seller_id, r.order_month>> : r \in { x \in Range(df) : IsCandidate(x) } }

\* the column is_campaign_month of lines 218-221
IsCampaignMonth(campaign_keys, r) == <<r.seller_id, r.order_month>> \in campaign_keys

RECURSIVE SortedSeq(_)
\* the elements of a set of integers, ascending
SortedSeq(S) ==
    IF S = {} THEN <<>>
    ELSE LET m == CHOOSE a \in S : \A b \in S : a <= b
         IN  <<m>> \o SortedSeq(S \ {m})

\* the percentage without its guard
UpliftPctUnguarded(campaign_avg, non_avg) ==
    FMul(FDiv(FSub(campaign_avg, non_avg), non_avg), Num(100))

\* lines 241-243 and 246-248: the guarded uplift percentage
UpliftPct(campaign_avg, non_avg) ==
    IF FGt(non_avg, Num(0))
    THEN FMul(FDiv(FSub(campaign_avg, non_avg), non_avg), Num(100))
    ELSE NaN

\* the output row with the GMV baseline taken over all months of the seller
SellerRowAllMonths(seller, camp, non) ==
    LET avg_orders_campaign == Mean(Column(camp, "orders"))
        avg_orders_non == Mean(Column(non, "orders"))
        avg_gmv_campaign == Mean(Column(camp, "gmv"))
        avg_gmv_non == Mean(Column(camp \o non, "gmv"))
    IN  [ seller_id |-> seller,
          campaign_months |-> SortedSeq(Range(Column(camp, "order_month"))),
          avg_orders_campaign |-> avg_orders_campaign,
          avg_orders_non_campaign |-> avg_orders_non,
          order_uplift_pct |-> UpliftPct(avg_orders_campaign, avg_orders_non),
          avg_gmv_campaign |-> avg_gmv_campaign,
          avg_gmv_non_campaign |-> avg_gmv_non,
          gmv_uplift_pct |-> UpliftPct(avg_gmv_campaign, avg_gmv_non) ]

\* lines 230-250: the output row of one seller
SellerRow(seller, camp, non) ==
    LET avg_orders_campaign == Mean(Column(camp, "orders"))
        avg_orders_non == Mean(Column(non, "orders"))
        avg_gmv_campaign == Mean(Column(camp, "gmv"))
        avg_gmv_non == Mean(Column(non, "gmv"))
    IN  [ seller_id |-> seller,
          campaign_months |-> SortedSeq(Range(Column(camp, "order_month"))),
          avg_orders_campaign |-> avg_orders_campaign,
          avg_orders_non_campaign |-> avg_orders_non,
          order_uplift_pct |-> UpliftPct(avg_orders_campaign, avg_orders_non),
          avg_gmv_campaign |-> avg_gmv_campaign,
          avg_gmv_non_campaign |-> avg_gmv_non,
          gmv_uplift_pct |-> UpliftPct(avg_gmv_campaign, avg_gmv_non) ]

\* line 227: a seller without a campaign month or without a baseline month
SkipSeller(camp, non) == camp = <<>> \/ non = <<>>

RECURSIVE GroupRows(_, _, _)
\* lines 223-250: the loop over df.groupby("seller_id"), sellers ascending
GroupRows(df, campaign_keys, sellers) ==
    IF sellers = <<>> THEN <<>>
    ELSE LET seller == Head(sellers)
             part == SelectSeq(df, LAMBDA r : r.seller_id = seller)
             camp == SelectSeq(part, LAMBDA r : IsCampaignMonth(campaign_keys, r))
             non == SelectSeq(part, LAMBDA r : ~IsCampaignMonth(campaign_keys, r))
         IN  (IF SkipSeller(camp, non) THEN <<>> ELSE <<SellerRow(seller, camp, non)>>)
             \o GroupRows(df, campaign_keys, Tail(sellers))

RECURSIVE InsertDesc(_, _, _)
\* r put into a descending sequence; among equal keys before them (tieFirst)
\* or after them
InsertDesc(sorted, r, tieFirst) ==
    IF sorted = <<>> THEN <<r>>
    ELSE LET h == Head(sorted)
         IN  IF FGt(r.gmv_uplift_pct, h.gmv_uplift_pct)
                \/ (tieFirst /\ FEq(r.gmv_uplift_pct, h.gmv_uplift_pct))
             THEN <<r>> \o sorted
             ELSE <<h>> \o InsertDesc(Tail(sorted), r, tieFirst)

RECURSIVE SortDesc(_, _)
SortDesc(rows, tieFirst) ==
    IF rows = <<>> THEN <<>>
    ELSE InsertDesc(SortDesc(Tail(rows), tieFirst), Head(rows), tieFirst)

HasGmvUplift(r) == r.gmv_uplift_pct.k # "nan"

MissingGmvUplift(r) == r.gmv_uplift_pct.k = "nan"

Reverse(s) == [i \in 1..Len(s) |-> s[Len(s) + 1 - i]]

\* the sort without ascending=False
SortValuesAscending(rows, tieFirst) ==
    Reverse(SortDesc(SelectSeq(rows, HasGmvUplift), tieFirst))
    \o SelectSeq(rows, MissingGmvUplift)

\* line 252: sort_values("gmv_uplift_pct", ascending=False), na_position "last".
\* The default sort kind is not stable: the order among equal keys is either
\* one (tieFirst).
SortValues(rows, tieFirst) ==
    SortDesc(SelectSeq(rows, HasGmvUplift), tieFirst) \o SelectSeq(rows, MissingGmvUplift)

\* the schema without its campaign_months column
CampaignColumnsShort ==
    << "seller_id", "avg_orders_campaign", "avg_orders_non_campaign",
       "order_uplift_pct", "avg_gmv_campaign", "avg_gmv_non_campaign", "gmv_uplift_pct" >>

\* lines 204-213, and the keys of the dict of lines 236-249
CampaignColumns ==
    << "seller_id", "campaign_months", "avg_orders_campaign", "avg_orders_non_campaign",
       "order_uplift_pct", "avg_gmv_campaign", "avg_gmv_non_campaign", "gmv_uplift_pct" >>

\* pd.DataFrame(rows): the columns are the keys of the rows; no row, no column
FrameOfRows(rows) ==
    [columns |-> IF rows = <<>> THEN <<>> ELSE CampaignColumns, rows |-> rows]

\* lines 198-252.  error is "none", or the exception the call raises:
\* sort_values on a frame without the column gmv_uplift_pct is a KeyError.
detect_campaign_sellers(df, tieFirst) ==
    IF \A i \in DOMAIN df : ~IsCandidate(df[i])
    THEN [error |-> "none", frame |-> [columns |-> CampaignColumns, rows |-> <<>>]]
    ELSE LET frame == FrameOfRows(GroupRows(df, CampaignKeys(df),
                                            SortedSeq(Range(Column(df, "seller_id")))))
         IN  IF "gmv_uplift_pct" \in Range(frame.columns)
             THEN [error |-> "none",
                   frame |-> [columns |-> frame.columns,
                              rows |-> SortValues(frame.rows, tieFirst)]]
             ELSE [error |-> "KeyError", frame |-> frame]


\* ----------------------------------------------------- order-review input
\* (is_free_shipping_order, hk_sim_free_ship_flag, order_gmv, order_freight,
\*  avg_delivery_days, review_score) of an order
OrderVals ==
    { <<Num(1), Num(1), Num(300), Num(0), Num(5), Num(5)>>,
      <<Num(0), Num(0), Num(100), Num(20), Num(10), Num(3)>>,
      <<Num(0), Num(1), Num(0), Num(10), Num(7), NaN>>,
      <<NaN, NaN, Num(100), Num(20), Num(9), Num(5)>>,
      <<Num(1), Num(0), Num(0), Num(0), Num(4), Num(3)>>,
      <<NaN, Num(1), Num(300), Num(30), Num(12), NaN>> }

OrderRow(id, v) ==
    [ order_id |-> id, is_free_shipping_order |-> v[1], hk_sim_free_ship_flag |-> v[2],
      order_gmv |-> v[3], order_freight |-> v[4], avg_delivery_days |-> v[5],
      review_score |-> v[6] ]

\* every order-review table of at most MaxOrders rows; order_id is its key
OrderTables(max_orders) ==
    UNION { { [i \in 1..n |-> OrderRow(i, f[i])] : f \in [1..n -> OrderVals] } :
            n \in 0..max_orders }

\* ------------------------------- uplift_analysis, simulation_uplift_analysis
RECURSIVE SortedCells(_)
\* non-missing cells, ascending
SortedCells(S) ==
    IF S = {} THEN <<>>
    ELSE LET m == CHOOSE a \in S : \A b \in S : FGe(b, a)
         IN  <<m>> \o SortedCells(S \ {m})

\* groupby(flag) with its default dropna=True
GroupKeysDropNa(cells) == SortedCells({ c \in Range(cells) : IsNotNa(c) })

\* groupby(flag, dropna=False): the distinct keys, sorted, the missing key last
GroupKeys(cells) ==
    SortedCells({ c \in Range(cells) : IsNotNa(c) })
    \o (IF \E c \in Range(cells) : ~IsNotNa(c) THEN <<NaN>> ELSE <<>>)

\* the rows of a group: NaN keys group together
InGroup(cell, key) == IF IsNotNa(key) THEN FEq(cell, key) ELSE ~IsNotNa(cell)

\* np.where(flag == 1, positive, negative)
SegmentLabel(flag, positive, negative) ==
    IF FEq(flag, Num(1)) THEN positive ELSE negative

\* lines 130-146 and 150-166, which differ in the flag column and the labels
GroupSummary(order_review, flag_col, positive, negative) ==
    LET keys == GroupKeys(Column(order_review, flag_col))
    IN  [ i \in 1..Len(keys) |->
            LET part == SelectSeq(order_review, LAMBDA r : InGroup(r[flag_col], keys[i]))
            IN  [ flag |-> keys[i],
                  orders |-> Cardinality(Range(Column(part, "order_id"))),
                  avg_gmv |-> Mean(Column(part, "order_gmv")),
                  avg_freight |-> Mean(Column(part, "order_freight")),
                  avg_delivery_days |-> Mean(Column(part, "avg_delivery_days")),
                  avg_review |-> Mean(Column(part, "review_score")),
                  segment |-> SegmentLabel(keys[i], positive, negative) ] ]

uplift_analysis(order_review) ==
    GroupSummary(order_review, "is_free_shipping_order", "FreeShipping", "PaidShipping")

simulation_uplift_analysis(order_review) ==
    GroupSummary(order_review, "hk_sim_free_ship_flag",
                 "HK_Policy_Eligible", "HK_Policy_NotEligible")

\* ----------------------------------------------------------- ttest_analysis
\* p-values scipy.stats.ttest_ind may return; the t distribution is not modelled
PValues == { Rat(1, 100), Rat(1, 20), Rat(1, 2), NaN }

\* lines 170-195; t_stat and p_value come from scipy
ttest_analysis(order_review, p_val) ==
    LET free == Column(SelectSeq(order_review,
                    LAMBDA r : FEq(r.is_free_shipping_order, Num(1)) /\ IsNotNa(r.review_score)),
                    "review_score")
        paid == Column(SelectSeq(order_review,
                    LAMBDA r : FEq(r.is_free_shipping_order, Num(0)) /\ IsNotNa(r.review_score)),
                    "review_score")
    IN  [ mean_a |-> Mean(free), mean_b |-> Mean(paid), p_value |-> p_val,
          n_a |-> Len(free), n_b |-> Len(paid) ]

\* ------------------------------------------------ build_recommendation_text
FallbackLine == "No campaign-like seller months detected under current thresholds."

\* item 4 taken from the last row of the table
SellerLineLast(seller_uplift_df) ==
    IF seller_uplift_df.rows = <<>> \/ seller_uplift_df.columns = <<>>
    THEN [text |-> FallbackLine, seller_id |-> 0, gmv_uplift_pct |-> NaN]
    ELSE LET top == seller_uplift_df.rows[Len(seller_uplift_df.rows)]
         IN  [text |-> "Top campaign-like seller", seller_id |-> top.seller_id,
              gmv_uplift_pct |-> top.gmv_uplift_pct]

\* lines 273-279: item 4 of the recommendation
SellerLine(seller_uplift_df) ==
    IF seller_uplift_df.rows = <<>> \/ seller_uplift_df.columns = <<>>
    THEN [text |-> FallbackLine, seller_id |-> 0, gmv_uplift_pct |-> NaN]
    ELSE LET top == seller_uplift_df.rows[1]
         IN  [text |-> "Top campaign-like seller", seller_id |-> top.seller_id,
              gmv_uplift_pct |-> top.gmv_uplift_pct]

\* line 268: no guard on the paid-shipping average
GmvDeltaPct(free_avg_gmv, paid_avg_gmv) ==
    FMul(FDiv(FSub(free_avg_gmv, paid_avg_gmv), paid_avg_gmv), Num(100))

\* line 271
Significance(p_val) ==
    IF FLt(p_val, Rat(1, 20)) THEN "statistically significant"
    ELSE "not statistically significant"

\* lines 281-286
PolicyLines(policy_sim) ==
    LET gmv_sum == SumCells(Column(policy_sim, "gmv"))
    IN  [ avg_apply_rate |-> IF policy_sim # <<>>
                             THEN Mean(Column(policy_sim, "apply_rate")) ELSE NaN,
          avg_subsidy |-> IF policy_sim # <<>> /\ FGt(gmv_sum, Num(0))
                          THEN FMul(FDiv(SumCells(Column(policy_sim, "subsidy_cost_estimate")),
                                         gmv_sum), Num(100))
                          ELSE NaN ]

NoText ==
    [ corr_ship_order |-> NaN, gmv_delta_pct |-> NaN, review_delta |-> NaN,
      sig |-> "", p_val |-> NaN, seller_line |-> [text |-> "", seller_id |-> 0,
      gmv_uplift_pct |-> NaN], avg_apply_rate |-> NaN, avg_subsidy |-> NaN ]

\* lines 255-302.  error is "none", or IndexError when uplift_df has no
\* FreeShipping row or no PaidShipping row (iloc[0] of an empty frame).
build_recommendation_text(corr_df, uplift_df, ttest_df, seller_uplift_df, policy_sim) ==
    LET free_rows == SelectSeq(uplift_df, LAMBDA r : r.segment = "FreeShipping")
        paid_rows == SelectSeq(uplift_df, LAMBDA r : r.segment = "PaidShipping")
    IN  IF free_rows = <<>> \/ paid_rows = <<>>
        THEN [error |-> "IndexError", text |-> NoText]
        ELSE LET free_row == free_rows[1]
                 paid_row == paid_rows[1]
                 policy == PolicyLines(policy_sim)
             IN  [ error |-> "none",
                   text |-> [ corr_ship_order |-> corr_df,
                              gmv_delta_pct |-> GmvDeltaPct(free_row.avg_gmv, paid_row.avg_gmv),
                              review_delta |-> FSub(free_row.avg_review, paid_row.avg_review),
                              sig |-> Significance(ttest_df.p_value),
                              p_val |-> ttest_df.p_value,
                              seller_line |-> SellerLine(seller_uplift_df),
                              avg_apply_rate |-> policy.avg_apply_rate,
                              avg_subsidy |-> policy.avg_subsidy ] ]


\* ------------------------------------------------------------------- main
VARIABLES
    pc,                \* the statement of main() to run next
    error,             \* "none", or the exception that ended the run
    completed,         \* the statements of main() that have returned
    warehouse,         \* the tables of the database
    outdir,            \* does the output directory exist
    files,             \* the files written to the output directory
    order_review, seller_monthly, policy_sim,
    corr_df, uplift_df, sim_uplift_df, ttest_df, seller_uplift_df, recommendation

vars ==
    << pc, error, completed, warehouse, outdir, files, order_review, seller_monthly,
       policy_sim, corr_df, uplift_df, sim_uplift_df, ttest_df, seller_uplift_df,
       recommendation >>

FetchStages ==
    << "fetch_monthly", "fetch_corr_input", "fetch_order_review", "fetch_seller_monthly",
       "fetch_policy_sim" >>

AnalysisStages ==
    << "correlation", "uplift", "sim_uplift", "ttest", "detect", "recommend" >>

\* lines 331-340, the file each statement writes
WriteStages ==
    << "monthly_kpi.csv", "monthly_corr_input.csv", "correlation_matrix.csv",
       "shipping_segment_uplift.csv", "hk_policy_eligibility_uplift.csv",
       "ttest_review_score.csv", "seller_campaign_uplift.csv",
       "hk_policy_monthly_simulation.csv", "recommendation.txt" >>

\* main() with each table exported as soon as it is fetched
MainStagesEagerWrite ==
    << "parse_args", "mkdir", "build_engine", "fetch_monthly", "monthly_kpi.csv",
       "fetch_corr_input", "monthly_corr_input.csv", "fetch_order_review",
       "fetch_seller_monthly", "fetch_policy_sim", "hk_policy_monthly_simulation.csv" >>
    \o AnalysisStages
    \o << "correlation_matrix.csv", "shipping_segment_uplift.csv",
          "hk_policy_eligibility_uplift.csv", "ttest_review_score.csv",
          "seller_campaign_uplift.csv", "recommendation.txt", "print", "done" >>

\* lines 309-344: the statements of main() in program order
MainStages ==
    <<"parse_args", "mkdir", "build_engine">> \o FetchStages \o AnalysisStages
    \o WriteStages \o <<"print", "done">>

StageAfter(stage) ==
    MainStages[(CHOOSE i \in DOMAIN MainStages : MainStages[i] = stage) + 1]

\* the analysis frames before they are computed
NoFrame == [columns |-> <<>>, rows |-> <<>>]
NoTtest == [mean_a |-> NaN, mean_b |-> NaN, p_value |-> NaN, n_a |-> 0, n_b |-> 0]

\* Pearson coefficients corr_df.loc["order_count", "avg_freight_per_order"] may
\* hold; the correlation itself is not modelled
CorrValues == { Rat(-1, 2), NaN }

PolicyRow(rate, subsidy, gmv) ==
    [apply_rate |-> rate, subsidy_cost_estimate |-> subsidy, gmv |-> gmv]

SamplePolicy == <<PolicyRow(Rat(1, 4), Num(50), Num(1000)), PolicyRow(Rat(1, 2), Num(30), Num(600))>>

SampleOrders ==
    << OrderRow(1, <<Num(1), Num(1), Num(300), Num(0), Num(5), Num(5)>>),
       OrderRow(2, <<Num(0), Num(0), Num(100), Num(20), Num(10), Num(3)>>) >>

SampleSellers ==
    << SellerMonth(1, 1, <<Num(40), Num(1000), Rat(4, 5)>>),
       SellerMonth(1, 2, <<Num(10), Num(200), Rat(1, 2)>>) >>

\* the analysis of SampleOrders
SampleUplift == uplift_analysis(SampleOrders)
SampleSimUplift == simulation_uplift_analysis(SampleOrders)
SampleTtest == ttest_analysis(SampleOrders, Rat(1, 100))

\* the databases a full run of main() reads
Warehouses ==
    [ order_review : { <<>>, SampleOrders },
      seller_monthly : { <<>>, SubSeq(SampleSellers, 1, 1), SampleSellers },
      policy_sim : { <<>>, SamplePolicy } ]

Init ==
    /\ pc = "parse_args"
    /\ error = "none"
    /\ completed = {}
    /\ warehouse \in Warehouses
    /\ outdir = FALSE
    /\ files = {}
    /\ order_review = <<>>
    /\ seller_monthly = <<>>
    /\ policy_sim = <<>>
    /\ corr_df = NaN
    /\ uplift_df = <<>>
    /\ sim_uplift_df = <<>>
    /\ ttest_df = NoTtest
    /\ seller_uplift_df = NoFrame
    /\ recommendation = NoText

\* the statement at pc returns
Return ==
    /\ pc' = StageAfter(pc)
    /\ completed' = completed \cup {pc}
    /\ error' = error

\* the statement at pc raises: nothing catches it, the run ends
Raise(exception) ==
    /\ pc' = "aborted"
    /\ error' = exception
    /\ completed' = completed

\* line 309
ParseArgs ==
    /\ pc = "parse_args"
    /\ Return
    /\ UNCHANGED << warehouse, outdir, files, order_review, seller_monthly, policy_sim,
                    corr_df, uplift_df, sim_uplift_df, ttest_df, seller_uplift_df,
                    recommendation >>

\* lines 310-311
Mkdir ==
    /\ pc = "mkdir"
    /\ outdir' = TRUE
    /\ Return
    /\ UNCHANGED << warehouse, files, order_review, seller_monthly, policy_sim,
                    corr_df, uplift_df, sim_uplift_df, ttest_df, seller_uplift_df,
                    recommendation >>

\* line 313: create_engine opens no connection
BuildEngine ==
    /\ pc = "build_engine"
    /\ Return
    /\ UNCHANGED << warehouse, outdir, files, order_review, seller_monthly, policy_sim,
                    corr_df, uplift_df, sim_uplift_df, ttest_df, seller_uplift_df,
                    recommendation >>

\* lines 49-112, one pd.read_sql per step: the query returns its table, or the
\* connection or the query fails
FetchDataframes ==
    /\ pc \in Range(FetchStages)
    /\ \/ /\ order_review' = IF pc = "fetch_order_review"
                             THEN warehouse.order_review ELSE order_review
          /\ seller_monthly' = IF pc = "fetch_seller_monthly"
                               THEN warehouse.seller_monthly ELSE seller_monthly
          /\ policy_sim' = IF pc = "fetch_policy_sim"
                           THEN warehouse.policy_sim ELSE policy_sim
          /\ Return
       \/ /\ Raise("OperationalError")
          /\ UNCHANGED << order_review, seller_monthly, policy_sim >>
    /\ UNCHANGED << warehouse, outdir, files, corr_df, uplift_df, sim_uplift_df,
                    ttest_df, seller_uplift_df, recommendation >>

\* line 317
CorrelationAnalysis ==
    /\ pc = "correlation"
    /\ corr_df' \in CorrValues
    /\ Return
    /\ UNCHANGED << warehouse, outdir, files, order_review, seller_monthly, policy_sim,
                    uplift_df, sim_uplift_df, ttest_df, seller_uplift_df, recommendation >>

\* line 318
UpliftAnalysis ==
    /\ pc = "uplift"
    /\ uplift_df' = uplift_analysis(order_review)
    /\ Return
    /\ UNCHANGED << warehouse, outdir, files, order_review, seller_monthly, policy_sim,
                    corr_df, sim_uplift_df, ttest_df, seller_uplift_df, recommendation >>

\* line 319
SimulationUpliftAnalysis ==
    /\ pc = "sim_uplift"
    /\ sim_uplift_df' = simulation_uplift_analysis(order_review)
    /\ Return
    /\ UNCHANGED << warehouse, outdir, files, order_review, seller_monthly, policy_sim,
                    corr_df, uplift_df, ttest_df, seller_uplift_df, recommendation >>

\* line 320
TtestAnalysis ==
    /\ pc = "ttest"
    /\ \E p_val \in PValues : ttest_df' = ttest_analysis(order_review, p_val)
    /\ Return
    /\ UNCHANGED << warehouse, outdir, files, order_review, seller_monthly, policy_sim,
                    corr_df, uplift_df, sim_uplift_df, seller_uplift_df, recommendation >>

\* line 321
DetectCampaignSellers ==
    /\ pc = "detect"
    /\ \E tieFirst \in BOOLEAN :
          LET res == detect_campaign_sellers(seller_monthly, tieFirst)
          IN  IF res.error = "none"
              THEN seller_uplift_df' = res.frame /\ Return
              ELSE seller_uplift_df' = seller_uplift_df /\ Raise(res.error)
    /\ UNCHANGED << warehouse, outdir, files, order_review, seller_monthly, policy_sim,
                    corr_df, uplift_df, sim_uplift_df, ttest_df, recommendation >>

\* lines 323-329
BuildRecommendationText ==
    /\ pc = "recommend"
    /\ LET res == build_recommendation_text(corr_df, uplift_df, ttest_df,
                                            seller_uplift_df, policy_sim)
       IN  IF res.error = "none"
           THEN recommendation' = res.text /\ Return
           ELSE recommendation' = recommendation /\ Raise(res.error)
    /\ UNCHANGED << warehouse, outdir, files, order_review, seller_monthly, policy_sim,
                    corr_df, uplift_df, sim_uplift_df, ttest_df, seller_uplift_df >>

\* lines 331-340, one file per step
WriteOutput ==
    /\ pc \in Range(WriteStages)
    /\ files' = files \cup {pc}
    /\ Return
    /\ UNCHANGED << warehouse, outdir, order_review, seller_monthly, policy_sim,
                    corr_df, uplift_df, sim_uplift_df, ttest_df, seller_uplift_df,
                    recommendation >>

\* lines 342-344
PrintSummary ==
    /\ pc = "print"
    /\ Return
    /\ UNCHANGED << warehouse, outdir, files, order_review, seller_monthly, policy_sim,
                    corr_df, uplift_df, sim_uplift_df, ttest_df, seller_uplift_df,
                    recommendation >>

Next ==
    \/ ParseArgs
    \/ Mkdir
    \/ BuildEngine
    \/ FetchDataframes
    \/ CorrelationAnalysis
    \/ UpliftAnalysis
    \/ SimulationUpliftAnalysis
    \/ TtestAnalysis
    \/ DetectCampaignSellers
    \/ BuildRecommendationText
    \/ WriteOutput
    \/ PrintSummary

\* a run of main() against one of the sample databases
Spec == Init /\ [][Next]_vars

\* ---- detect_campaign_sellers and the reporter over every seller-month table
InitDetect ==
    /\ pc = "detect"
    /\ error = "none"
    /\ completed = Range(SubSeq(MainStages, 1, 12))
    /\ \E ks \in SellerKeySets(MaxRows) :
          \E f \in [ks -> SellerMonthVals] : seller_monthly = SellerRows(ks, f)
    /\ warehouse = [ order_review |-> SampleOrders, seller_monthly |-> seller_monthly,
                     policy_sim |-> SamplePolicy ]
    /\ outdir = TRUE
    /\ files = {}
    /\ order_review = SampleOrders
    /\ policy_sim = SamplePolicy
    /\ corr_df = Rat(-1, 2)
    /\ uplift_df = SampleUplift
    /\ sim_uplift_df = SampleSimUplift
    /\ ttest_df = SampleTtest
    /\ seller_uplift_df = NoFrame
    /\ recommendation = NoText

NextDetect ==
    \/ DetectCampaignSellers
    \/ BuildRecommendationText

SpecDetect == InitDetect /\ [][NextDetect]_vars

\* ---- the uplift summaries and the reporter over every order-review table
InitUplift ==
    /\ pc = "uplift"
    /\ error = "none"
    /\ completed = Range(SubSeq(MainStages, 1, 9))
    /\ order_review \in OrderTables(MaxOrders)
    /\ warehouse = [ order_review |-> order_review, seller_monthly |-> SampleSellers,
                     policy_sim |-> SamplePolicy ]
    /\ outdir = TRUE
    /\ files = {}
    /\ seller_monthly = SampleSellers
    /\ policy_sim = SamplePolicy
    /\ corr_df = Rat(-1, 2)
    /\ uplift_df = <<>>
    /\ sim_uplift_df = <<>>
    /\ ttest_df = NoTtest
    /\ seller_uplift_df = NoFrame
    /\ recommendation = NoText

NextUplift ==
    \/ UpliftAnalysis
    \/ SimulationUpliftAnalysis
    \/ TtestAnalysis
    \/ DetectCampaignSellers
    \/ BuildRecommendationText

SpecUplift == InitUplift /\ [][NextUplift]_vars


\* ======================================================================
\* The claims.  They are stated over the input table and the output of a
\* run, with the campaign test and the averages restated from the claims.
\* ======================================================================

\* rate >= 0.80 and orders >= 30
ClaimCampaignMonth(r) ==
    /\ r.free_shipping_item_rate.n * 5 >= 4 * r.free_shipping_item_rate.d
    /\ r.orders.n >= 30 * r.orders.d

ClaimCampaignRows(s) ==
    { r \in Range(seller_monthly) : r.seller_id = s /\ ClaimCampaignMonth(r) }

ClaimBaselineRows(s) ==
    { r \in Range(seller_monthly) : r.seller_id = s /\ ~ClaimCampaignMonth(r) }

ClaimHasBoth(s) == ClaimCampaignRows(s) # {} /\ ClaimBaselineRows(s) # {}

RECURSIVE ClaimSum(_, _)
\* the sum of an integer column over a set of rows
ClaimSum(S, col) ==
    IF S = {} THEN 0
    ELSE LET r == CHOOSE x \in S : TRUE
         IN  r[col].n + ClaimSum(S \ {r}, col)

\* the arithmetic mean of an integer column over a non-empty set of rows
ClaimAvg(S, col) == Rat(ClaimSum(S, col), Cardinality(S))

OutputRows == seller_uplift_df.rows

DetectEnded == pc # "detect"

\* C1: with (seller id, month) a unique key, the detector outputs exactly one
\* row for a seller if and only if the seller has at least one campaign month
\* and at least one non-campaign month; any other seller has no row.
C1_RowIffBothGroups ==
    DetectEnded =>
        \A s \in SellerIds :
            Cardinality({ i \in DOMAIN OutputRows : OutputRows[i].seller_id = s })
                = IF ClaimHasBoth(s) THEN 1 ELSE 0

C1_Witness ==
    /\ pc = "recommend"
    /\ Len(OutputRows) = 1
    /\ OutputRows[1].seller_id = 1
    /\ ClaimCampaignRows(2) # {}
    /\ ClaimBaselineRows(2) = {}

\* C2: in every output row, order_uplift_pct is finite exactly when the
\* seller's non-campaign average order count is > 0, gmv_uplift_pct exactly
\* when the non-campaign average GMV is > 0; otherwise the percentage is
\* missing (no division by the baseline, so no infinity).
C2_FiniteIffBaselinePositive ==
    DetectEnded =>
        \A i \in DOMAIN OutputRows :
            LET r == OutputRows[i]
                non == ClaimBaselineRows(r.seller_id)
                orders_pos == ClaimSum(non, "orders") > 0
                gmv_pos == ClaimSum(non, "gmv") > 0
            IN  /\ IsFinite(r.order_uplift_pct) <=> orders_pos
                /\ ~orders_pos => r.order_uplift_pct = NaN
                /\ IsFinite(r.gmv_uplift_pct) <=> gmv_pos
                /\ ~gmv_pos => r.gmv_uplift_pct = NaN

C2_Witness ==
    /\ pc = "recommend"
    /\ \E i \in DOMAIN OutputRows :
          /\ IsFinite(OutputRows[i].order_uplift_pct)
          /\ OutputRows[i].gmv_uplift_pct = NaN
          /\ ClaimSum(ClaimBaselineRows(OutputRows[i].seller_id), "gmv") = 0

\* the seller-months of the scenario: campaign months with orders {40, 50} and
\* GMV {1000, 1200}, one non-campaign month with orders 10 and GMV 200
ClaimScenario(s) ==
    /\ { <<r.orders, r.gmv>> : r \in ClaimCampaignRows(s) }
          = { <<Num(40), Num(1000)>>, <<Num(50), Num(1200)>> }
    /\ Cardinality(ClaimCampaignRows(s)) = 2
    /\ { <<r.orders, r.gmv>> : r \in ClaimBaselineRows(s) } = { <<Num(10), Num(200)>> }
    /\ Cardinality(ClaimBaselineRows(s)) = 1

\* C3: in every output row the four averages are the arithmetic means of
\* orders and gmv over the seller's campaign and non-campaign months, and a
\* defined percentage is (campaign_avg - noncampaign_avg) / noncampaign_avg * 100;
\* the scenario seller yields 45, 10, 350 and 1100, 200, 450.
C3_MeansAndUplift ==
    DetectEnded =>
        \A i \in DOMAIN OutputRows :
            LET r == OutputRows[i]
                camp == ClaimCampaignRows(r.seller_id)
                non == ClaimBaselineRows(r.seller_id)
            IN  /\ r.avg_orders_campaign = ClaimAvg(camp, "orders")
                /\ r.avg_orders_non_campaign = ClaimAvg(non, "orders")
                /\ r.avg_gmv_campaign = ClaimAvg(camp, "gmv")
                /\ r.avg_gmv_non_campaign = ClaimAvg(non, "gmv")
                /\ IsFinite(r.order_uplift_pct) =>
                      FMul(r.order_uplift_pct, ClaimAvg(non, "orders"))
                        = FMul(FSub(ClaimAvg(camp, "orders"), ClaimAvg(non, "orders")), Num(100))
                /\ IsFinite(r.gmv_uplift_pct) =>
                      FMul(r.gmv_uplift_pct, ClaimAvg(non, "gmv"))
                        = FMul(FSub(ClaimAvg(camp, "gmv"), ClaimAvg(non, "gmv")), Num(100))
                /\ ClaimScenario(r.seller_id) =>
                      /\ r.avg_orders_campaign = Num(45)
                      /\ r.avg_orders_non_campaign = Num(10)
                      /\ r.order_uplift_pct = Num(350)
                      /\ r.avg_gmv_campaign = Num(1100)
                      /\ r.avg_gmv_non_campaign = Num(200)
                      /\ r.gmv_uplift_pct = Num(450)

C3_Witness ==
    /\ pc = "recommend"
    /\ \E i \in DOMAIN OutputRows :
          /\ ClaimScenario(OutputRows[i].seller_id)
          /\ OutputRows[i].order_uplift_pct = Num(350)
          /\ OutputRows[i].gmv_uplift_pct = Num(450)

ClaimColumns ==
    << "seller_id", "campaign_months", "avg_orders_campaign", "avg_orders_non_campaign",
       "order_uplift_pct", "avg_gmv_campaign", "avg_gmv_non_campaign", "gmv_uplift_pct" >>

\* C4: when the input is empty or no seller-month meets the campaign
\* threshold, the detector returns without error a table of zero rows and
\* exactly the eight fixed columns.
C4_EmptySchema ==
    (DetectEnded /\ \A r \in Range(seller_monthly) : ~ClaimCampaignMonth(r)) =>
        /\ error = "none"
        /\ pc # "aborted"
        /\ seller_uplift_df.rows = <<>>
        /\ seller_uplift_df.columns = ClaimColumns

C4_Witness ==
    /\ pc = "recommend"
    /\ seller_monthly # <<>>
    /\ \A r \in Range(seller_monthly) : ~ClaimCampaignMonth(r)
    /\ seller_uplift_df.rows = <<>>
    /\ Len(seller_uplift_df.columns) = 8

ClaimAllStages == Range(FetchStages) \cup Range(AnalysisStages)

\* C5: a file is written only after all five queries and all analysis stages
\* have completed; a run that a failed connection or query aborts has written
\* no file.
C5_NoOutputBeforeAnalysis ==
    /\ files # {} => (ClaimAllStages \subseteq completed /\ error = "none")
    /\ error = "OperationalError" => (pc = "aborted" /\ files = {})

C5_Witness ==
    /\ pc = "aborted"
    /\ error = "OperationalError"
    /\ "fetch_seller_monthly" \in completed
    /\ outdir
    /\ files = {}

ClaimPaidRow ==
    LET paid == SelectSeq(uplift_df, LAMBDA r : r.segment = "PaidShipping") IN paid[1]

\* C6: every uplift percentage, the reporter's gmv_delta_pct included, is
\* computed only when its baseline average is strictly positive; with a
\* baseline <= 0 it is reported as missing.
C6_EveryUpliftGuarded ==
    "recommend" \in completed =>
        /\ ~FGt(ClaimPaidRow.avg_gmv, Num(0)) => recommendation.gmv_delta_pct = NaN
        /\ \A i \in DOMAIN OutputRows :
              /\ ~FGt(OutputRows[i].avg_orders_non_campaign, Num(0))
                    => OutputRows[i].order_uplift_pct = NaN
              /\ ~FGt(OutputRows[i].avg_gmv_non_campaign, Num(0))
                    => OutputRows[i].gmv_uplift_pct = NaN

\* C7: the output rows are ordered by gmv_uplift_pct descending: adjacent rows
\* with defined values are in >= order, and every row with a missing value
\* comes after every row with a defined value.
C7_SortedDescendingNaNLast ==
    DetectEnded =>
        \A i, j \in DOMAIN OutputRows :
            i < j =>
                /\ ~(OutputRows[i].gmv_uplift_pct = NaN /\ OutputRows[j].gmv_uplift_pct # NaN)
                /\ (j = i + 1 /\ OutputRows[i].gmv_uplift_pct # NaN
                        /\ OutputRows[j].gmv_uplift_pct # NaN)
                     => FGe(OutputRows[i].gmv_uplift_pct, OutputRows[j].gmv_uplift_pct)

C7_Witness ==
    /\ pc = "recommend"
    /\ Len(OutputRows) = 2
    /\ OutputRows[1].seller_id = 2
    /\ FGt(OutputRows[1].gmv_uplift_pct, Num(0))
    /\ OutputRows[2].gmv_uplift_pct = NaN

\* C8: item 4 of the recommendation is the fixed fallback sentence if and only
\* if the campaign-seller table has zero rows; otherwise it names the seller
\* of the first row with that row's gmv_uplift_pct.
C8_FallbackIffNoRows ==
    "recommend" \in completed =>
        IF OutputRows = <<>>
        THEN recommendation.seller_line.text = FallbackLine
        ELSE /\ recommendation.seller_line.text # FallbackLine
             /\ recommendation.seller_line.seller_id = OutputRows[1].seller_id
             /\ recommendation.seller_line.gmv_uplift_pct = OutputRows[1].gmv_uplift_pct

C8_Witness ==
    /\ "recommend" \in completed
    /\ Len(OutputRows) = 2
    /\ OutputRows[1].seller_id = 2
    /\ recommendation.seller_line.seller_id = 2
    /\ recommendation.seller_line.text # FallbackLine

\* the number of distinct values of a flag column, the missing value counted once
ClaimDistinctFlags(col) ==
    Cardinality({ c \in Range(Column(order_review, col)) : c # NaN })
    + (IF NaN \in Range(Column(order_review, col)) THEN 1 ELSE 0)

ClaimOneRowPerFlag(df, col, positive, negative) ==
    /\ Len(df) = ClaimDistinctFlags(col)
    /\ Len(df) <= 3
    /\ \A c \in Range(Column(order_review, col)) :
          Cardinality({ i \in DOMAIN df : df[i].flag = c }) = 1
    /\ \A i \in DOMAIN df :
          /\ df[i].flag \in Range(Column(order_review, col))
          /\ df[i].segment = IF df[i].flag = Num(1) THEN positive ELSE negative

\* C9: uplift_analysis and simulation_uplift_analysis return exactly one row
\* per distinct value of their flag present in the input, missing flags kept
\* as a group of their own (at most 3 rows); the label is the positive one
\* exactly when the flag is 1.
C9_OneRowPerFlagValue ==
    "sim_uplift" \in completed =>
        /\ ClaimOneRowPerFlag(uplift_df, "is_free_shipping_order",
                              "FreeShipping", "PaidShipping")
        /\ ClaimOneRowPerFlag(sim_uplift_df, "hk_sim_free_ship_flag",
                              "HK_Policy_Eligible", "HK_Policy_NotEligible")

C9_Witness ==
    /\ "sim_uplift" \in completed
    /\ Len(uplift_df) = 3
    /\ uplift_df[3].flag = NaN
    /\ uplift_df[3].segment = "PaidShipping"
    /\ Len(sim_uplift_df) = 3

\* C10: when no seller has both a campaign and a non-campaign month, also
\* when some seller-months meet the threshold, the detector completes without
\* an error and returns a zero-row table.
C10_NoSellerWithBothGivesEmptyTable ==
    (DetectEnded /\ \A s \in SellerIds : ~ClaimHasBoth(s)) =>
        /\ error = "none"
        /\ pc # "aborted"
        /\ OutputRows = <<>>

====
